---- MODULE Spec2Model ----
(***************************************************************************)
(* The per-request middleware pipeline of featmap's HTTP server (main.go). *)
(*                                                                         *)
(* main() mounts a chain of middlewares on a chi router and then the route *)
(* groups.  chi runs the mounted middlewares in mount order for every      *)
(* request, then the middlewares of the matched route group, then the      *)
(* handler; every middleware either calls the next one or returns, and the *)
(* code after its call to next (or its deferred functions) runs while the  *)
(* call stack unwinds.  One request is in flight at a time in Spec; the    *)
(* server serves up to MaxRequests requests one after the other.           *)
(*                                                                         *)
(* The bodies of ContextSkeleton, Transaction, Mailgun, Auth, User and of  *)
(* the route groups are modelled from the specification's sections 4.1 to  *)
(* 4.5; the mount order, the route table and the start-up sequence are     *)
(* modelled from main.go.                                                  *)
(***************************************************************************)
EXTENDS Integers, Sequences, FiniteSets, TLC

\* ------------------------------------------------------------------ bounds
MaxRequests == 2       \* requests served one after the other
MaxTicks == 2          \* clock ticks that may elapse during one request
PoolSize == 2          \* connections in the database pool
NumPeers == 2          \* other requests in flight next to the one followed

\* middleware.Timeout(60 * time.Second): the deadline, in clock ticks
Deadline == 2

\* ------------------------------------------------------------- the wiring
\* Faulty mount orders, used to show that the properties below depend on the
\* order main() mounts the middlewares in.
ChainRecovererInside ==
    <<"RequestID", "RealIP", "Logger", "CORS", "Verifier", "ContextSkeleton",
      "Transaction", "Recoverer", "Mailgun", "Auth", "User", "Timeout">>

ChainTwoTransactions ==
    <<"RequestID", "RealIP", "Logger", "Recoverer", "CORS", "Verifier",
      "ContextSkeleton", "Transaction", "Transaction", "Mailgun", "Auth", "User",
      "Timeout">>

ChainAuthAfterUser ==
    <<"RequestID", "RealIP", "Logger", "Recoverer", "CORS", "Verifier",
      "ContextSkeleton", "Transaction", "Mailgun", "User", "Auth", "Timeout">>

ChainNoUser ==
    <<"RequestID", "RealIP", "Logger", "Recoverer", "CORS", "Verifier",
      "ContextSkeleton", "Transaction", "Mailgun", "Auth", "Timeout">>

ChainNoRecoverer ==
    <<"RequestID", "RealIP", "Logger", "CORS", "Verifier",
      "ContextSkeleton", "Transaction", "Mailgun", "Auth", "User", "Timeout">>

ChainTimeoutFirst ==
    <<"RequestID", "RealIP", "Logger", "Recoverer", "Timeout", "CORS", "Verifier",
      "ContextSkeleton", "Transaction", "Mailgun", "Auth", "User">>

ChainTransactionAfterAuth ==
    <<"RequestID", "RealIP", "Logger", "Recoverer", "CORS", "Verifier",
      "ContextSkeleton", "Mailgun", "Auth", "Transaction", "User", "Timeout">>

\* r.Use(...) in mount order (main.go lines 46-123)
Chain ==
    <<"RequestID", "RealIP", "Logger", "Recoverer", "CORS", "Verifier",
      "ContextSkeleton", "Transaction", "Mailgun", "Auth", "User", "Timeout">>

\* the routes of main.go lines 130-147
Routes == {"users", "link", "account", "workspace", "static", "index"}

\* Faulty route tables: the account group mounted without its guard, the
\* workspace group mounted with the account guard only or with no guard, the
\* users group mounted behind the account guard.
GroupUsersGuarded(rt) ==
    CASE rt \in {"users", "account"} -> <<"AccountGuard">>
      [] rt = "workspace" -> <<"TenantScopeGuard">>
      [] OTHER -> << >>

GroupWorkspaceOpen(rt) ==
    IF rt = "account" THEN <<"AccountGuard">> ELSE << >>

GroupAccountOpen(rt) ==
    IF rt = "workspace" THEN <<"TenantScopeGuard">> ELSE << >>

GroupWorkspaceAccountOnly(rt) ==
    IF rt \in {"account", "workspace"} THEN <<"AccountGuard">> ELSE << >>

\* the middlewares a route group mounts in front of its handlers
\* (lines 130-133: "Nothing is needed", "Account needed",
\*  "Account + workspace is needed")
Group(rt) ==
    CASE rt = "account" -> <<"AccountGuard">>
      [] rt = "workspace" -> <<"TenantScopeGuard">>
      [] OTHER -> << >>

\* everything a request to route rt runs through, outermost first
FullChain(rt) == Chain \o Group(rt) \o <<"Handler">>

\* what a handler of the route may do: return after writing a success
\* response, return without writing anything (net/http then answers 200),
\* return after writing an error status, panic before writing anything, or
\* panic after having written the response header
HandlerOutcomes(rt) ==
    CASE rt = "index" -> {"ok"}
      [] rt = "static" -> {"ok", "err"}
      [] OTHER -> {"ok", "silent", "err", "panic", "writePanic"}

Tokens == {"none", "valid", "expired", "malformed"}

\* http.ResponseWriter: the first WriteHeader wins, later ones are ignored
SetStatus(cur, code) == IF cur = 0 THEN code ELSE cur

\* ------------------------------------------------------------------- state
VARIABLES
    acct,        \* accounts table: the row of the token's subject
    member,      \* membership table: a row (subject, workspace) exists
    visible,     \* requests whose handler writes are committed
    pool,        \* idle connections of the pool
    reqNo,       \* number of requests started so far
    pc,          \* "idle", "down" (calling inwards), "up" (returning), "done"
    idx,         \* position in FullChain(route)
    token,       \* the request's bearer token
    route,       \* the route the request targets
    ctx,         \* keys of the request context
    status,      \* response status written, 0 while no header is written
    panicking,   \* a panic is unwinding the stack
    recoveredBy, \* the stage that recovered the panic, "" if none
    nBegin,      \* transactions begun for the request
    nCommit,     \* Commit calls for the request
    nRollback,   \* Rollback calls for the request
    commitErr,   \* the Commit call returned an error
    wrote,       \* the handler wrote rows through the transaction
    ran,         \* the stages entered, in order
    stoppedBy,   \* the stage that short-circuited the chain, "" if none
    hOutcome,    \* what the handler did, "" if it did not run
    missRead,    \* a stage looked up a context value that was not there
    tBase,       \* ticks elapsed in the stages mounted before ContextSkeleton
    tPipe,       \* ticks elapsed in ContextSkeleton .. User
    tRoute,      \* ticks elapsed in the route group's stages and the handler
    armedAt,     \* elapsed time at which Timeout set the deadline, -1 if not
    timedOut,    \* Timeout found the deadline exceeded
    rollbackErr, \* the Rollback call returned an error (it is logged)
    conn,        \* the pooled connection of the request's transaction, 0 if none
    peerConn,    \* the connection each other in-flight request holds, 0 if none
    prev,        \* what the request this one replays ended with, << >> if none
    dbChanged,   \* accounts or memberships changed since the last request ended
    boot,        \* how far main() has got
    cfg,         \* the Configuration in use: "unread", "file" or "default"
    dbOpen,      \* sqlx.Connect has returned a connected db
    migErr,      \* m.Up() returned an error
    mounted      \* the middlewares and routes are registered on the router

Peers == 1..NumPeers
Conns == 1..PoolSize
NoPrev == << >>

bootVars == <<boot, cfg, dbOpen, migErr, mounted>>
dbVars == <<acct, member, visible, pool, conn>>
reqVars == <<reqNo, token, route, prev, dbChanged, bootVars, peerConn>>
posVars == <<pc, idx, ran, stoppedBy>>
txVars == <<nBegin, nCommit, nRollback, commitErr, rollbackErr, wrote>>
respVars == <<status, panicking, recoveredBy>>
clockVars == <<tBase, tPipe, tRoute, armedAt, timedOut>>
vars == <<dbVars, reqVars, posVars, txVars, respVars, clockVars, ctx, hOutcome,
          missRead>>

Elapsed == tBase + tPipe + tRoute
OpenTx == nBegin - nCommit - nRollback
Stage == FullChain(route)[idx]
Ran(s) == \E i \in 1..Len(ran) : ran[i] = s
\* the connections no transaction holds
Idle == Conns \ ({conn} \cup {peerConn[p] : p \in Peers})
PipeStages == {"ContextSkeleton", "Transaction", "Mailgun", "Auth", "User"}
RouteStages == {"AccountGuard", "TenantScopeGuard", "Handler"}

\* the server's state when it starts to serve, main()'s start-up apart
InitServer ==
    /\ acct \in {"missing", "enabled", "disabled"}
    /\ member \in BOOLEAN
    /\ (acct = "missing" => ~member)
    /\ visible = {}
    /\ pool = PoolSize
    /\ reqNo = 0
    /\ pc = "idle"
    /\ idx = 0
    /\ token = "none"
    /\ route = "users"
    /\ ctx = {}
    /\ status = 0
    /\ panicking = FALSE
    /\ recoveredBy = ""
    /\ nBegin = 0
    /\ nCommit = 0
    /\ nRollback = 0
    /\ commitErr = FALSE
    /\ wrote = FALSE
    /\ ran = << >>
    /\ stoppedBy = ""
    /\ hOutcome = ""
    /\ missRead = FALSE
    /\ tBase = 0
    /\ tPipe = 0
    /\ tRoute = 0
    /\ armedAt = -1
    /\ timedOut = FALSE
    /\ rollbackErr = FALSE
    /\ conn = 0
    /\ peerConn = [p \in Peers |-> 0]
    /\ prev = NoPrev
    /\ dbChanged = FALSE

\* main() has read conf.json, connected, migrated, mounted and listens
Init ==
    /\ InitServer
    /\ boot = "serving"
    /\ cfg = "file"
    /\ dbOpen = TRUE
    /\ migErr = FALSE
    /\ mounted = TRUE

\* ---------------------------------------------------------------- helpers
Entering(s) == pc = "down" /\ Stage = s
Leaving(s) == pc = "up" /\ idx >= 1 /\ Stage = s

\* the stage calls next.ServeHTTP
PassOn(s) ==
    /\ pc' = "down"
    /\ idx' = idx + 1
    /\ ran' = Append(ran, s)
    /\ UNCHANGED stoppedBy

\* the stage writes a response and returns without calling next
ShortCircuit(s) ==
    /\ pc' = "up"
    /\ idx' = idx - 1
    /\ ran' = Append(ran, s)
    /\ stoppedBy' = s

\* the stage panics: the stack unwinds from the stage before it
Panic(s) ==
    /\ pc' = "up"
    /\ idx' = idx - 1
    /\ ran' = Append(ran, s)
    /\ UNCHANGED stoppedBy

\* ---------------------------------------------------------------- actions
\* net/http accepts a request with token tok for route rt and calls the router
StartWith(tok, rt, pv) ==
    /\ boot = "serving"
    /\ pc \in {"idle", "done"}
    /\ reqNo < MaxRequests
    /\ reqNo' = reqNo + 1
    /\ token' = tok
    /\ route' = rt
    /\ prev' = pv
    /\ dbChanged' = FALSE
    /\ pc' = "down"
    /\ idx' = 1
    /\ ctx' = {}
    /\ status' = 0
    /\ panicking' = FALSE
    /\ recoveredBy' = ""
    /\ nBegin' = 0
    /\ nCommit' = 0
    /\ nRollback' = 0
    /\ commitErr' = FALSE
    /\ wrote' = FALSE
    /\ ran' = << >>
    /\ stoppedBy' = ""
    /\ hOutcome' = ""
    /\ missRead' = FALSE
    /\ tBase' = 0
    /\ tPipe' = 0
    /\ tRoute' = 0
    /\ armedAt' = -1
    /\ timedOut' = FALSE
    /\ rollbackErr' = FALSE
    /\ UNCHANGED <<dbVars, bootVars, peerConn>>

\* a new request arrives
Start == \E tok \in Tokens, rt \in Routes : StartWith(tok, rt, NoPrev)

\* time passes while the current stage is at work
Tick ==
    /\ pc = "down"
    /\ Elapsed < MaxTicks
    /\ IF Stage \in PipeStages
         THEN tPipe' = tPipe + 1 /\ UNCHANGED <<tBase, tRoute>>
         ELSE IF Stage \in RouteStages
           THEN tRoute' = tRoute + 1 /\ UNCHANGED <<tBase, tPipe>>
           ELSE tBase' = tBase + 1 /\ UNCHANGED <<tPipe, tRoute>>
    /\ UNCHANGED <<dbVars, reqVars, posVars, txVars, respVars, ctx, hOutcome,
                   missRead, armedAt, timedOut>>

\* r.Use(middleware.RequestID), line 46
RequestID ==
    /\ Entering("RequestID")
    /\ PassOn("RequestID")
    /\ UNCHANGED <<dbVars, reqVars, txVars, respVars, clockVars, ctx, hOutcome,
                   missRead>>

\* r.Use(middleware.RealIP), line 47
RealIP ==
    /\ Entering("RealIP")
    /\ PassOn("RealIP")
    /\ UNCHANGED <<dbVars, reqVars, txVars, respVars, clockVars, ctx, hOutcome,
                   missRead>>

\* r.Use(middleware.Logger), line 48
Logger ==
    /\ Entering("Logger")
    /\ PassOn("Logger")
    /\ UNCHANGED <<dbVars, reqVars, txVars, respVars, clockVars, ctx, hOutcome,
                   missRead>>

\* r.Use(middleware.Recoverer), line 49: installs the deferred recover
Recoverer ==
    /\ Entering("Recoverer")
    /\ PassOn("Recoverer")
    /\ UNCHANGED <<dbVars, reqVars, txVars, respVars, clockVars, ctx, hOutcome,
                   missRead>>

\* r.Use(corsConfiguration.Handler), lines 53-62: a preflight request is
\* answered here (OptionsPassthrough is not set), any other is passed on
CORS ==
    /\ Entering("CORS")
    /\ \/ /\ PassOn("CORS")
          /\ UNCHANGED status
       \/ /\ ShortCircuit("CORS")
          /\ status' = SetStatus(status, 200)
    /\ UNCHANGED <<dbVars, reqVars, txVars, panicking, recoveredBy, clockVars,
                   ctx, hOutcome, missRead>>

\* r.Use(jwtauth.Verifier(auth)), line 111: looks for the token, verifies it
\* and stores the token and the verification error in the context; it always
\* calls next
Verifier ==
    /\ Entering("Verifier")
    /\ PassOn("Verifier")
    /\ ctx' = ctx \cup {"jwt"}
    /\ UNCHANGED <<dbVars, reqVars, txVars, respVars, clockVars, hOutcome,
                   missRead>>

\* r.Use(ContextSkeleton(config)), line 112
ContextSkeleton ==
    /\ Entering("ContextSkeleton")
    /\ PassOn("ContextSkeleton")
    /\ ctx' = ctx \cup {"config"}
    /\ UNCHANGED <<dbVars, reqVars, txVars, respVars, clockVars, hOutcome,
                   missRead>>

\* r.Use(Transaction(db)), line 114, on the way in: checks a connection out
\* and begins the transaction; a begin failure is answered with 500
Transaction ==
    /\ Entering("Transaction")
    /\ \/ /\ pool > 0
          /\ pool' = pool - 1
          /\ \E c \in Idle : conn' = c
          /\ nBegin' = nBegin + 1
          /\ ctx' = ctx \cup {"txn"}
          /\ PassOn("Transaction")
          /\ UNCHANGED status
       \/ /\ ShortCircuit("Transaction")
          /\ status' = SetStatus(status, 500)
          /\ UNCHANGED <<pool, conn, nBegin, ctx>>
    /\ UNCHANGED <<acct, member, visible, reqVars, nCommit, nRollback, commitErr,
                   rollbackErr, wrote, panicking, recoveredBy, clockVars, hOutcome, missRead>>

\* r.Use(Mailgun(mg)), line 115
Mailgun ==
    /\ Entering("Mailgun")
    /\ PassOn("Mailgun")
    /\ ctx' = ctx \cup {"mail"}
    /\ UNCHANGED <<dbVars, reqVars, txVars, respVars, clockVars, hOutcome,
                   missRead>>

\* r.Use(Auth(auth)), line 116: rejects a malformed or expired token, attaches
\* the claims of a valid one, lets a request without token through
Auth ==
    /\ Entering("Auth")
    /\ missRead' = (missRead \/ "jwt" \notin ctx)
    /\ IF "jwt" \in ctx /\ token \in {"expired", "malformed"}
         THEN /\ ShortCircuit("Auth")
              /\ status' = SetStatus(status, 401)
              /\ UNCHANGED ctx
         ELSE /\ PassOn("Auth")
              /\ ctx' = IF "jwt" \in ctx /\ token = "valid"
                          THEN ctx \cup {"claims"} ELSE ctx
              /\ UNCHANGED status
    /\ UNCHANGED <<dbVars, reqVars, txVars, panicking, recoveredBy, clockVars,
                   hOutcome>>

\* r.Use(User()), line 118: loads the account of the claims' subject through
\* the transaction
User ==
    /\ Entering("User")
    /\ IF "claims" \notin ctx
         THEN \* anonymous
              /\ PassOn("User")
              /\ UNCHANGED <<ctx, status, panicking, missRead>>
         ELSE IF "txn" \notin ctx
           THEN \* no transaction to look the account up with
                /\ Panic("User")
                /\ panicking' = TRUE
                /\ missRead' = TRUE
                /\ UNCHANGED <<ctx, status>>
           ELSE /\ UNCHANGED <<panicking, missRead>>
                /\ CASE acct = "missing" ->
                          /\ ShortCircuit("User")
                          /\ status' = SetStatus(status, 401)
                          /\ UNCHANGED ctx
                     [] acct = "disabled" ->
                          /\ ShortCircuit("User")
                          /\ status' = SetStatus(status, 403)
                          /\ UNCHANGED ctx
                     [] OTHER ->
                          /\ PassOn("User")
                          /\ ctx' = ctx \cup {"account"}
                          /\ UNCHANGED status
    /\ UNCHANGED <<dbVars, reqVars, txVars, recoveredBy, clockVars, hOutcome>>

\* r.Use(middleware.Timeout(60 * time.Second)), line 123, on the way in:
\* derives a context with the deadline and calls next
Timeout ==
    /\ Entering("Timeout")
    /\ PassOn("Timeout")
    /\ armedAt' = Elapsed
    /\ UNCHANGED <<dbVars, reqVars, txVars, respVars, ctx, hOutcome, missRead,
                   tBase, tPipe, tRoute, timedOut>>

\* the account route group (line 132, "Account needed")
AccountGuard ==
    /\ Entering("AccountGuard")
    /\ IF "account" \in ctx
         THEN /\ PassOn("AccountGuard")
              /\ UNCHANGED status
         ELSE /\ ShortCircuit("AccountGuard")
              /\ status' = SetStatus(status, 401)
    /\ UNCHANGED <<dbVars, reqVars, txVars, panicking, recoveredBy, clockVars,
                   ctx, hOutcome, missRead>>

\* A faulty guard: it records the membership it found missing, through the
\* pool instead of the request's transaction.
TenantScopeGuardGrants ==
    /\ Entering("TenantScopeGuard")
    /\ IF "account" \notin ctx
         THEN /\ ShortCircuit("TenantScopeGuard")
              /\ status' = SetStatus(status, 401)
              /\ UNCHANGED <<ctx, member>>
         ELSE IF ~member
           THEN /\ ShortCircuit("TenantScopeGuard")
                /\ status' = SetStatus(status, 403)
                /\ member' = TRUE
                /\ UNCHANGED ctx
           ELSE /\ PassOn("TenantScopeGuard")
                /\ ctx' = ctx \cup {"membership"}
                /\ UNCHANGED <<status, member>>
    /\ UNCHANGED <<acct, visible, pool, conn, reqVars, txVars, panicking,
                   recoveredBy, clockVars, hOutcome, missRead>>

\* the workspace route group (line 133, "Account + workspace is needed")
TenantScopeGuard ==
    /\ Entering("TenantScopeGuard")
    /\ IF "account" \notin ctx
         THEN /\ ShortCircuit("TenantScopeGuard")
              /\ status' = SetStatus(status, 401)
              /\ UNCHANGED ctx
         ELSE IF ~member
           THEN /\ ShortCircuit("TenantScopeGuard")
                /\ status' = SetStatus(status, 403)
                /\ UNCHANGED ctx
           ELSE /\ PassOn("TenantScopeGuard")
                /\ ctx' = ctx \cup {"membership"}
                /\ UNCHANGED status
    /\ UNCHANGED <<dbVars, reqVars, txVars, panicking, recoveredBy, clockVars,
                   hOutcome, missRead>>

\* a route handler (usersAPI, linkAPI, accountAPI, workspaceApi, the file
\* server and the index page)
Handler ==
    /\ Entering("Handler")
    /\ \E o \in HandlerOutcomes(route),
          w \in (IF route \in {"static", "index"} \/ "txn" \notin ctx
                   THEN {FALSE} ELSE BOOLEAN) :
          /\ hOutcome' = o
          /\ wrote' = w
          /\ status' = CASE o = "ok" -> SetStatus(status, 200)
                         [] o = "err" -> SetStatus(status, 400)
                         [] o = "writePanic" -> SetStatus(status, 200)
                         [] OTHER -> status
          /\ panicking' = (o \in {"panic", "writePanic"})
    /\ pc' = "up"
    /\ idx' = idx - 1
    /\ ran' = Append(ran, "Handler")
    /\ UNCHANGED <<dbVars, reqVars, stoppedBy, nBegin, nCommit, nRollback,
                   commitErr, rollbackErr, recoveredBy, clockVars, ctx, missRead>>

\* middleware.Timeout, deferred: cancels the context and answers 504 when the
\* deadline was exceeded
TimeoutExit ==
    /\ Leaving("Timeout")
    /\ idx' = idx - 1
    /\ IF armedAt >= 0 /\ Elapsed - armedAt >= Deadline
         THEN /\ timedOut' = TRUE
              /\ status' = SetStatus(status, 504)
         ELSE UNCHANGED <<timedOut, status>>
    /\ UNCHANGED <<dbVars, reqVars, pc, ran, stoppedBy, txVars, panicking,
                   recoveredBy, ctx, hOutcome, missRead, tBase, tPipe, tRoute,
                   armedAt>>

\* Transaction(db) on the way out: rolls back after a panic, an error status
\* or a timeout, commits otherwise; a commit failure is answered with 500, a
\* rollback failure is logged; either way the connection goes back to the pool
TransactionExit ==
    /\ Leaving("Transaction")
    /\ idx' = idx - 1
    /\ pool' = pool + 1
    /\ conn' = 0
    /\ IF panicking \/ status >= 400 \/ timedOut
         THEN /\ nRollback' = nRollback + 1
              /\ rollbackErr' \in BOOLEAN
              /\ UNCHANGED <<nCommit, commitErr, visible, status>>
         ELSE /\ nCommit' = nCommit + 1
              /\ UNCHANGED <<nRollback, rollbackErr>>
              /\ \/ /\ visible' = IF wrote THEN visible \cup {reqNo} ELSE visible
                    /\ UNCHANGED <<commitErr, status>>
                 \/ /\ commitErr' = TRUE
                    /\ status' = SetStatus(status, 500)
                    /\ UNCHANGED visible
    /\ UNCHANGED <<acct, member, reqVars, pc, ran, stoppedBy, nBegin, wrote,
                   panicking, recoveredBy, clockVars, ctx, hOutcome, missRead>>

\* middleware.Recoverer, deferred: recovers a panic and answers 500
RecovererExit ==
    /\ Leaving("Recoverer")
    /\ idx' = idx - 1
    /\ IF panicking
         THEN /\ panicking' = FALSE
              /\ recoveredBy' = "Recoverer"
              /\ status' = SetStatus(status, 500)
         ELSE UNCHANGED respVars
    /\ UNCHANGED <<dbVars, reqVars, pc, ran, stoppedBy, txVars, clockVars, ctx,
                   hOutcome, missRead>>

\* a middleware without code after its call to next returns (or the panic
\* passes through it)
Return ==
    /\ pc = "up"
    /\ idx >= 1
    /\ Stage \notin {"Timeout", "Transaction", "Recoverer"}
    /\ idx' = idx - 1
    /\ UNCHANGED <<dbVars, reqVars, pc, ran, stoppedBy, txVars, respVars,
                   clockVars, ctx, hOutcome, missRead>>

\* the router returns to net/http: a response without explicit header is a
\* 200; a panic that reaches the server is recovered there and the connection
\* is closed without a response
Finish ==
    /\ pc = "up"
    /\ idx = 0
    /\ pc' = "done"
    /\ IF panicking
         THEN /\ panicking' = FALSE
              /\ recoveredBy' = "net/http"
              /\ UNCHANGED status
         ELSE /\ status' = SetStatus(status, 200)
              /\ UNCHANGED <<panicking, recoveredBy>>
    /\ UNCHANGED <<dbVars, reqVars, idx, ran, stoppedBy, txVars, clockVars, ctx,
                   hOutcome, missRead>>

\* what the server does with the request it follows, time apart
Serve ==
    \/ Start
    \/ RequestID
    \/ RealIP
    \/ Logger
    \/ Recoverer
    \/ CORS
    \/ Verifier
    \/ ContextSkeleton
    \/ Transaction
    \/ Mailgun
    \/ Auth
    \/ User
    \/ Timeout
    \/ AccountGuard
    \/ TenantScopeGuard
    \/ Handler
    \/ TimeoutExit
    \/ TransactionExit
    \/ RecovererExit
    \/ Return
    \/ Finish

Next == Serve \/ Tick

Spec == Init /\ [][Next]_vars

\* ------------------------------------------------------- replayed requests
\* what a request ended with: the stage that stopped it, the response status
\* and what the handler did
Outcome == <<stoppedBy, status, hOutcome>>

\* the client sends the request it has just been answered a second time
Replay ==
    /\ pc = "done"
    /\ StartWith(token, route, <<Outcome, dbChanged>>)

\* between two requests an account is created, disabled, enabled or deleted,
\* or a membership is granted or withdrawn
DbChange ==
    /\ boot = "serving"
    /\ pc = "done"
    /\ ~dbChanged
    /\ \E a \in {"missing", "enabled", "disabled"}, m \in BOOLEAN :
          /\ (a = "missing" => ~m)
          /\ <<a, m>> # <<acct, member>>
          /\ acct' = a
          /\ member' = m
    /\ dbChanged' = TRUE
    /\ UNCHANGED <<visible, pool, conn, reqNo, token, route, prev, bootVars,
                   peerConn, posVars, txVars, respVars, clockVars, ctx, hOutcome,
                   missRead>>

NextReplay == Serve \/ Replay \/ DbChange

SpecReplay == Init /\ [][NextReplay]_vars

\* ------------------------------------------------------ concurrent requests
\* Another request, served by its own goroutine, runs through Transaction(db):
\* it checks a connection out of the shared pool and begins its transaction
PeerBegin(p) ==
    /\ boot = "serving"
    /\ peerConn[p] = 0
    /\ pool > 0
    /\ pool' = pool - 1
    /\ \E c \in Idle : peerConn' = [peerConn EXCEPT ![p] = c]
    /\ UNCHANGED <<acct, member, visible, conn, reqNo, token, route, prev,
                   dbChanged, bootVars, posVars, txVars, respVars, clockVars, ctx,
                   hOutcome, missRead>>

\* the other request leaves Transaction(db), by return, short-circuit or
\* panic: its transaction is committed or rolled back and the connection goes
\* back to the pool
PeerEnd(p) ==
    /\ peerConn[p] # 0
    /\ pool' = pool + 1
    /\ peerConn' = [peerConn EXCEPT ![p] = 0]
    /\ UNCHANGED <<acct, member, visible, conn, reqNo, token, route, prev,
                   dbChanged, bootVars, posVars, txVars, respVars, clockVars, ctx,
                   hOutcome, missRead>>

\* the client repeats a request whose handler has panicked
RetryAfterPanic ==
    /\ hOutcome = "panic"
    /\ Replay

NextConc ==
    \/ Serve
    \/ RetryAfterPanic
    \/ \E p \in Peers : PeerBegin(p)
    \/ \E p \in Peers : PeerEnd(p)

SpecConc == Init /\ [][NextConc]_vars

\* ------------------------------------------------------------------ start-up
\* main() lines 64-75: a configuration that cannot be read is replaced by the
\* built-in defaults
LoadedConfigZero(err) == IF err THEN "unread" ELSE "file"

LoadedConfig(err) == IF err THEN "default" ELSE "file"

\* main() lines 77-80: a failed sqlx.Connect ends the process
AfterConnectIgnoringError(ok) == "migrate"

AfterConnect(ok) == IF ok THEN "migrate" ELSE "fatal"

\* main() lines 93-103: a failure to set the migrations up ends the process,
\* the result of m.Up() is not looked at
AfterMigrate(r) == IF r \in {"ok", "upErr"} THEN "mount" ELSE "fatal"

BootUnchanged ==
    UNCHANGED <<dbVars, reqNo, token, route, prev, dbChanged, peerConn, posVars,
                txVars, respVars, clockVars, ctx, hOutcome, missRead>>

\* config, err := readConfiguration(), lines 64-75
ReadConfiguration ==
    /\ boot = "start"
    /\ \E err \in BOOLEAN : cfg' = LoadedConfig(err)
    /\ boot' = "connect"
    /\ UNCHANGED <<dbOpen, migErr, mounted>>
    /\ BootUnchanged

\* db, err := sqlx.Connect(...), lines 77-80
Connect ==
    /\ boot = "connect"
    /\ \E ok \in BOOLEAN :
          /\ dbOpen' = ok
          /\ boot' = AfterConnect(ok)
    /\ UNCHANGED <<cfg, migErr, mounted>>
    /\ BootUnchanged

\* bindata.WithInstance, migrate.NewWithSourceInstance, m.Up(), lines 88-103
Migrate ==
    /\ boot = "migrate"
    /\ \E r \in {"ok", "sourceErr", "instanceErr", "upErr"} :
          /\ migErr' = (r = "upErr")
          /\ boot' = AfterMigrate(r)
    /\ UNCHANGED <<cfg, dbOpen, mounted>>
    /\ BootUnchanged

\* r.Use(...) and the routes, lines 105-147
Mount ==
    /\ boot = "mount"
    /\ mounted' = TRUE
    /\ boot' = "listen"
    /\ UNCHANGED <<cfg, dbOpen, migErr>>
    /\ BootUnchanged

\* http.ListenAndServe, line 150: serves, or returns an error, which main()
\* drops before it returns and its deferred db.Close() runs
Listen ==
    /\ boot = "listen"
    /\ \/ /\ boot' = "serving"
          /\ UNCHANGED dbOpen
       \/ /\ boot' = "exited"
          /\ dbOpen' = FALSE
    /\ UNCHANGED <<cfg, migErr, mounted>>
    /\ BootUnchanged

InitBoot ==
    /\ InitServer
    /\ boot = "start"
    /\ cfg = "unread"
    /\ dbOpen = FALSE
    /\ migErr = FALSE
    /\ mounted = FALSE

NextBoot ==
    \/ ReadConfiguration
    \/ Connect
    \/ Migrate
    \/ Mount
    \/ Listen
    \/ Serve

SpecBoot == InitBoot /\ [][NextBoot]_vars

TypeOK ==
    /\ pc \in {"idle", "down", "up", "done"}
    /\ status \in {0, 200, 400, 401, 403, 500, 504}
    /\ pool \in 0..PoolSize
    /\ conn \in 0..PoolSize
    /\ boot \in {"start", "connect", "migrate", "mount", "listen", "serving",
                 "fatal", "exited"}
    /\ cfg \in {"unread", "file", "default"}

\* ------------------------------------------------------------- properties
Done == pc = "done"
\* the Transaction Manager has begun the request's transaction and ended it
TxExited == nBegin = 1 /\ OpenTx = 0
RolledBack == nRollback = 1 /\ nCommit = 0 /\ reqNo \notin visible

\* C1: at every point of a request at most one transaction is open for it,
\* and when the request completes, by whatever exit path, no transaction is
\* open: the one that was begun has been ended by exactly one Commit or
\* Rollback call, and its connection is back in the pool.
C1_OneTransactionPerRequest ==
    /\ nBegin <= 1
    /\ OpenTx \in {0, 1}
    /\ nCommit + nRollback <= 1
    /\ pool = PoolSize - OpenTx
    /\ (pc = "down" /\ Ran("Transaction") /\ stoppedBy = "" => OpenTx = 1)
    /\ (Done => OpenTx = 0 /\ nCommit + nRollback = nBegin)

\* a handler panicked and the request completed with its transaction ended
C1_Witness == Done /\ hOutcome = "panic" /\ nBegin = 1 /\ nRollback = 1

\* the downstream chain completed without error status, fault or timeout
DownstreamOK == stoppedBy = "" /\ hOutcome \in {"ok", "silent"} /\ ~timedOut

\* C2: once the Transaction Manager has exited, it has called Commit if and
\* only if the downstream chain completed without an error status, without a
\* panic and without a timeout, and Rollback in every other case; writes of
\* the request are visible only after a successful commit of a successful
\* request.
C2_CommitIffSuccess ==
    /\ (TxExited => (nCommit = 1 <=> DownstreamOK))
    /\ (TxExited => (nRollback = 1 <=> ~DownstreamOK))
    /\ (reqNo \in visible => TxExited /\ DownstreamOK /\ wrote /\ ~commitErr)
    /\ (Done /\ nBegin = 1 /\ wrote /\ DownstreamOK /\ ~commitErr
          => reqNo \in visible)

\* a successful handler's writes were committed, after an earlier request of
\* the same server was rolled back
C2_Witness ==
    Done /\ reqNo = 2 /\ hOutcome = "ok" /\ nCommit = 1 /\ visible = {2}

\* the component of the specification's section 2 a stage belongs to; the
\* token is verified and put in the context by jwtauth.Verifier and rejected
\* by Auth, both the Authenticator's work
SpecStage(s) ==
    CASE s = "ContextSkeleton" -> 1
      [] s = "Transaction" -> 2
      [] s = "Mailgun" -> 3
      [] s \in {"Verifier", "Auth"} -> 4
      [] s = "User" -> 5
      [] s = "TenantScopeGuard" -> 6
      [] s = "Handler" -> 7
      [] OTHER -> 0

\* C3 as claimed: the components run in the order 1, 2, 3, 4, 5, [6],
\* handler, and no stage reads a context value a later stage writes.
C3_DeclaredOrder ==
    /\ \A i, j \in 1..Len(ran) :
         (i < j /\ SpecStage(ran[i]) > 0 /\ SpecStage(ran[j]) > 0)
           => SpecStage(ran[i]) <= SpecStage(ran[j])
    /\ (Ran("TenantScopeGuard") => route = "workspace")
    /\ ~missRead

\* the order in which main() mounts what a request to route rt runs through
MountOrder(rt) ==
    <<"RequestID", "RealIP", "Logger", "Recoverer", "CORS", "Verifier",
      "ContextSkeleton", "Transaction", "Mailgun", "Auth", "User", "Timeout">>
    \o (IF rt = "workspace" THEN <<"TenantScopeGuard">>
        ELSE IF rt = "account" THEN <<"AccountGuard">> ELSE << >>)
    \o <<"Handler">>

\* C3 amended: the token is verified and stored in the context first, before
\* the Config Context Injector; then the stages run strictly in the order
\* Config Context Injector, Transaction Manager, Notification Client Injector,
\* Authenticator (rejection), Identity Resolver, Timeout, the Tenant Scope
\* Guard only on the workspace group, the handler; each stage starts when the
\* one before has passed the request on, none after a stage stopped the
\* chain, and no stage reads a context value that is written later.
C3_MountOrder ==
    /\ Len(ran) <= Len(MountOrder(route))
    /\ \A i \in 1..Len(ran) : ran[i] = MountOrder(route)[i]
    /\ (Ran("TenantScopeGuard") => route = "workspace")
    /\ (stoppedBy # "" => ran[Len(ran)] = stoppedBy)
    /\ (Ran("Auth") => "jwt" \in ctx)
    /\ (Ran("User") => "txn" \in ctx)
    /\ ~missRead

\* a request to the workspace group went through every stage to the handler
C3_Witness ==
    Done /\ route = "workspace" /\ Ran("Handler") /\ Len(ran) = 14

FailingStages ==
    {"Transaction", "Auth", "User", "AccountGuard", "TenantScopeGuard"}

\* the stages that come after stage s in the pipeline
LaterStages(s) ==
    CASE s = "Transaction" ->
           {"Mailgun", "Auth", "User", "Timeout", "AccountGuard",
            "TenantScopeGuard", "Handler"}
      [] s = "Auth" ->
           {"User", "Timeout", "AccountGuard", "TenantScopeGuard", "Handler"}
      [] s = "User" ->
           {"Timeout", "AccountGuard", "TenantScopeGuard", "Handler"}
      [] OTHER -> {"Handler"}

\* C4: when a pipeline stage fails (answers with an error status instead of
\* passing the request on), no later stage and no handler runs for the request
\* and the response keeps the failing stage's status.
C4_FailureAborts ==
    \A s \in FailingStages :
        stoppedBy = s =>
            /\ \A t \in LaterStages(s) : ~Ran(t)
            /\ hOutcome = ""
            /\ status \in {401, 403, 500}

\* the Authenticator rejected a request, which then completed
C4_Witness == Done /\ stoppedBy = "Auth" /\ status = 401

\* C5: a request to the workspace group by an authenticated account that has
\* no membership row for the workspace never reaches the handler, is answered
\* 403 by the Tenant Scope Guard, and its transaction is rolled back with no
\* write visible.
C5_NoMembershipForbidden ==
    (route = "workspace" /\ "account" \in ctx /\ ~member) =>
        /\ ~Ran("Handler")
        /\ hOutcome = ""
        /\ ~wrote
        /\ reqNo \notin visible
        /\ nCommit = 0
        /\ (Done => /\ status = 403
                    /\ stoppedBy = "TenantScopeGuard"
                    /\ nBegin = 1
                    /\ RolledBack)

C5_Witness ==
    /\ Done
    /\ route = "workspace"
    /\ token = "valid"
    /\ acct = "enabled"
    /\ ~member
    /\ status = 403
    /\ nRollback = 1

\* C6: a request with valid claims whose account does not exist is answered
\* 401, one whose account is disabled is answered 403; in both cases the
\* Identity Resolver stops the chain and no handler is reached.
C6_IdentityResolverRejects ==
    ("claims" \in ctx /\ acct # "enabled") =>
        /\ ~Ran("Handler")
        /\ hOutcome = ""
        /\ ~Ran("AccountGuard")
        /\ ~Ran("TenantScopeGuard")
        /\ "account" \notin ctx
        /\ (Done => /\ stoppedBy = "User"
                    /\ status = (IF acct = "missing" THEN 401 ELSE 403))

\* a valid token of a disabled account was answered 403
C6_Witness ==
    Done /\ token = "valid" /\ acct = "disabled" /\ status = 403
         /\ stoppedBy = "User"

\* C7: a request with an expired or malformed token that reaches the
\* Authenticator is answered 401 there whatever the account's state, and
\* nothing mounted after the Authenticator runs.
C7_BadTokenUnauthorized ==
    token \in {"expired", "malformed"} =>
        /\ ~Ran("User")
        /\ ~Ran("Timeout")
        /\ ~Ran("AccountGuard")
        /\ ~Ran("TenantScopeGuard")
        /\ ~Ran("Handler")
        /\ "claims" \notin ctx
        /\ "account" \notin ctx
        /\ (Done /\ Ran("Auth") => status = 401 /\ stoppedBy = "Auth")

\* an expired token of a disabled account was answered 401, not 403
C7_Witness ==
    Done /\ token = "expired" /\ acct = "disabled" /\ status = 401

ProtectedRoutes == {"account", "workspace"}

\* C8 as claimed: a request without token to the account or workspace group
\* is answered 401 and the Identity Resolver never runs for it.
C8_ResolverNeverRuns ==
    (token = "none" /\ route \in ProtectedRoutes) =>
        /\ ~Ran("User")
        /\ (Done /\ Ran("Timeout") => status = 401)

\* C8 amended: a request without token to the account or workspace group that
\* reaches the route group is answered 401 by the group's guard and its
\* handler never runs; the Identity Resolver, mounted on every route, does run
\* and passes the request on with no account attached.
C8_MissingTokenUnauthorized ==
    (token = "none" /\ route \in ProtectedRoutes) =>
        /\ ~Ran("Handler")
        /\ hOutcome = ""
        /\ "claims" \notin ctx
        /\ "account" \notin ctx
        /\ (Ran("Timeout") => Ran("User"))
        /\ (Done /\ Ran("Timeout") =>
              /\ status = 401
              /\ stoppedBy = (IF route = "account" THEN "AccountGuard"
                              ELSE "TenantScopeGuard")
              /\ RolledBack)

C8_Witness ==
    Done /\ token = "none" /\ route = "account" /\ status = 401 /\ Ran("User")

Panicked == hOutcome \in {"panic", "writePanic"}

\* C9 as claimed: when a handler panics, Recoverer recovers the panic, the
\* response is 500 and the transaction is rolled back.
C9_PanicGives500 ==
    (Done /\ Panicked) =>
        /\ recoveredBy = "Recoverer"
        /\ status = 500
        /\ RolledBack

\* C9 amended: when a handler panics, the transaction is rolled back (never
\* committed) while the panic unwinds, Recoverer, mounted outside the
\* Transaction Manager, then recovers the panic, and the response is 500
\* unless a response header was written before: by the handler itself, or
\* by Timeout (504) when the deadline was exceeded.
C9_PanicRolledBack ==
    /\ (Panicked => nCommit = 0 /\ reqNo \notin visible)
    /\ (recoveredBy # "" => recoveredBy = "Recoverer" /\ TxExited /\ RolledBack)
    /\ (Done /\ Panicked =>
          /\ recoveredBy = "Recoverer"
          /\ RolledBack
          /\ status = (IF hOutcome = "writePanic" THEN 200
                       ELSE IF timedOut THEN 504 ELSE 500))

\* a handler that had written rows panicked: 500, rolled back
C9_Witness ==
    Done /\ hOutcome = "panic" /\ wrote /\ status = 500 /\ nRollback = 1

\* C10 as claimed: the deadline governs every stage from the Config Context
\* Injector to the handler: a request that spends the deadline or more there
\* has its transaction rolled back.
C10_DeadlineWholePipeline ==
    (Done /\ nBegin = 1 /\ tPipe + tRoute >= Deadline) => RolledBack

\* C10 amended: the deadline starts when the Timeout middleware is entered,
\* after the Identity Resolver, and governs the route group's stages and the
\* handler only; when it is exceeded there the transaction is rolled back and
\* no write becomes visible.
C10_DeadlineFromTimeout ==
    /\ (armedAt >= 0 => armedAt = tBase + tPipe)
    /\ (timedOut => tRoute >= Deadline)
    /\ (Done /\ Ran("Timeout") /\ tRoute >= Deadline => timedOut)
    /\ (timedOut /\ (Done \/ TxExited) => nBegin = 1 /\ RolledBack)

\* a handler that wrote rows and answered 200 after the deadline: rolled back
C10_Witness ==
    Done /\ timedOut /\ hOutcome = "ok" /\ wrote /\ nRollback = 1

HandlerSucceeded == hOutcome \in {"ok", "silent"}

\* C11: a request to the workspace group with a valid token of an enabled
\* account that has a membership row is rejected by no stage: the Identity
\* Resolver attaches the account, the Tenant Scope Guard the membership with
\* its role, the handler is reached, and when the handler succeeds (within
\* the deadline) the transaction is committed.
C11_MemberReachesHandler ==
    (route = "workspace" /\ token = "valid" /\ acct = "enabled" /\ member) =>
        /\ stoppedBy \notin {"Auth", "User", "TenantScopeGuard"}
        /\ (Ran("User") => "account" \in ctx)
        /\ (Ran("TenantScopeGuard") => "membership" \in ctx)
        /\ (Ran("Handler") => {"account", "membership", "txn"} \subseteq ctx)
        /\ (Done /\ Ran("Auth") => Ran("Handler"))
        /\ (Done /\ HandlerSucceeded /\ ~timedOut =>
              /\ nCommit = 1
              /\ nRollback = 0
              /\ (wrote /\ ~commitErr => reqNo \in visible))

\* a member's request reached the handler and its writes were committed
C11_Witness ==
    /\ Done
    /\ route = "workspace"
    /\ "membership" \in ctx
    /\ hOutcome = "ok"
    /\ wrote
    /\ reqNo \in visible

AuthzStages == {"Auth", "User", "AccountGuard", "TenantScopeGuard"}

\* the authorization decision of an outcome: the stage that rejected and its
\* status, or admitted when the handler was reached, or none when the request
\* was answered before authorization (preflight, transaction begin failure)
Decision(o) ==
    IF o[1] \in AuthzStages THEN <<o[1], o[2]>>
    ELSE IF o[3] # "" THEN <<"admitted", 0>>
    ELSE <<"none", 0>>

C14_ConnectionsOwnedAndReturned ==
    /\ (conn # 0 => \A p \in Peers : peerConn[p] # conn)
    /\ \A p, q \in Peers :
          (p # q /\ peerConn[p] # 0) => peerConn[p] # peerConn[q]
    /\ pool = Cardinality(Idle)
    /\ (conn # 0 <=> OpenTx = 1)
    /\ OpenTx \in {0, 1}
    /\ (pc \in {"idle", "done"} => conn = 0)
    /\ (pc \in {"idle", "done"} /\ (\A p \in Peers : peerConn[p] = 0)
          => pool = PoolSize)

\* a handler panicked, the request was replayed and the handler panicked
\* again: with nothing in flight the pool holds all its connections
C14_Witness ==
    /\ Done
    /\ reqNo = 2
    /\ prev # NoPrev
    /\ prev[1][3] = "panic"
    /\ hOutcome = "panic"
    /\ \A p \in Peers : peerConn[p] = 0
    /\ pool = PoolSize

C16_AnonymousPassesThrough ==
    token = "none" =>
        /\ stoppedBy \notin {"Auth", "User"}
        /\ "claims" \notin ctx
        /\ "account" \notin ctx
        /\ (route \in {"users", "link"} =>
              /\ stoppedBy \notin AuthzStages
              /\ (Done /\ Ran("Auth") => Ran("Handler")))

\* an anonymous request to /v1/link was handled and committed
C16_Witness ==
    /\ Done
    /\ token = "none"
    /\ route = "link"
    /\ Ran("User")
    /\ hOutcome = "ok"
    /\ nCommit = 1

\* C17: on the workspace group a request without account in its context is
\* stopped by the Tenant Scope Guard with 401, whether or not a membership
\* row exists; no membership is attached and the handler is not reached.
C17_GuardNeedsAccount ==
    (route = "workspace" /\ "account" \notin ctx) =>
        /\ ~Ran("Handler")
        /\ hOutcome = ""
        /\ "membership" \notin ctx
        /\ (Ran("TenantScopeGuard") =>
              stoppedBy = "TenantScopeGuard" /\ status = 401)

\* an anonymous request was answered 401 although a membership row exists
C17_Witness ==
    /\ Done
    /\ route = "workspace"
    /\ token = "none"
    /\ member
    /\ stoppedBy = "TenantScopeGuard"
    /\ status = 401

\* C18: a request that the Authenticator, the Identity Resolver or a route
\* group's guard rejects has its transaction open at the moment of rejection,
\* is answered 401 or 403, and ends with the transaction rolled back, never
\* committed.
C18_RejectedRollsBack ==
    stoppedBy \in AuthzStages =>
        /\ nBegin = 1
        /\ nCommit = 0
        /\ status \in {401, 403}
        /\ (pc = "up" /\ idx = Len(ran) - 1 => OpenTx = 1 /\ conn # 0)
        /\ (Done => RolledBack)

\* the Identity Resolver has just rejected a disabled account
C18_Witness ==
    /\ pc = "up"
    /\ idx = Len(ran) - 1
    /\ stoppedBy = "User"
    /\ status = 403
    /\ OpenTx = 1

\* C19: the middlewares are mounted and requests are served only with the
\* database connected: a failed sqlx.Connect ends the process before anything
\* is mounted or served; an error of m.Up() never ends it.
C19_ListenAfterConnect ==
    /\ (boot \in {"migrate", "mount", "listen", "serving"} => dbOpen)
    /\ (mounted => boot \in {"listen", "serving", "exited"})
    /\ (boot = "fatal" => ~mounted /\ reqNo = 0 /\ pc = "idle")
    /\ (reqNo > 0 => boot = "serving" /\ dbOpen /\ mounted)
    /\ (nBegin > 0 => dbOpen)
    /\ (migErr => boot \in {"mount", "listen", "serving", "exited"})

\* the migrations failed and the server served a request all the same
C19_Witness == boot = "serving" /\ migErr /\ Done /\ nCommit = 1
====
